---- MODULE Spec2Model ----
(***************************************************************************)
(* Model of the ndt8 measurement engine of bassosimone/2026-02-provlima.   *)
(*                                                                         *)
(* Part I  : the ndt8 server (session registry and HTTP handlers).          *)
(* Part II : the ndt8 Go client (measureMain, runWithProbes, runProbes).    *)
(* Part III: the ndt7 stream sender.                                       *)
(* Part IV : the ndt7 stream receiver.                                     *)
(* Part V  : the ndt7 connection setup (upgrade, dial, the handlers).      *)
(* Part VI : the rate computations.                                        *)
(* Part VII: chunk requests of realistic sizes, served one at a time.      *)
(* Part VIII: further properties of the ndt8 client, and the client under  *)
(*            fair scheduling.                                             *)
(* Part IX : the download chunks of one direction, read through the        *)
(*           sampling wrapper (slogging.ReadCloser).                       *)
(*                                                                         *)
(* The server handlers run one goroutine per request (net/http), so every   *)
(* handler is a small process; the registry operations are atomic because   *)
(* they run with sm.mu held.  The goroutines are interchangeable, so the    *)
(* running handlers form a bag.                                             *)
(***************************************************************************)
EXTENDS Integers, Sequences, FiniteSets, Bags, TLC

(***************************************************************************)
(* Bounds of the model.                                                     *)
(***************************************************************************)
\* number of requests the server handles at the same time
MaxReqs == 2
\* number of sessions created in one run (ids 1..MaxSessions)
MaxSessions == 2
\* ticker periods the clock is followed past the deadline
MaxOverrun == 2
\* messages the stream sender writes in one run
MaxSends == 130
\* sizes given to the scaling step: 1024 * 2^k for k up to this
MaxGateShift == 11
\* messages the stream receiver reads in one run
MaxReads == 5
\* payload length of a message the stream receiver reads
MaxLength == 3
\* requests the ndt7 handlers have answered before the one followed
MaxConns == 1
\* bytes given to a rate computation
MaxCount == 6
\* milliseconds given to a rate computation, in either direction
MaxElapsed == 4
\* ticker periods without a probe record that are counted in one direction
MaxUnsampled == 2
\* download chunks of one direction that are followed
MaxChunks == 2
\* calls of Read on the body of one chunk
MaxChunkReads == 3
\* session ids a client may present; 0 is an id the server never generates
Ids == 0..MaxSessions
\* the two states of sm.mu
Free == "unlocked"
Held == "locked"

(***************************************************************************)
(* HTTP status codes (net/http).                                            *)
(***************************************************************************)
StatusOK == 200
StatusCreated == 201
StatusNoContent == 204
StatusBadRequest == 400
StatusNotFound == 404

VARIABLES
    sessions,   \* sm.sessions: session id -> creation time
    mu,         \* sm.mu: Free or Held
    lastV7,     \* state of uuid.NewV7: the last identifier generated
    clock,      \* time.Now() on the server: strictly monotonic, in readings
    req,        \* the handler goroutines running: a bag of records
    issued,     \* history: ids returned by createSession, in order
    deleted,    \* history: ids for which deleteSession returned true
    del204      \* history: number of 204 answers of handleDeleteSession per id

serverVars == <<sessions, mu, lastV7, clock, req, issued, deleted, del204>>

VARIABLES
    mpc,        \* measureMain: the step it is about to take
    tpc,        \* runWithProbes: position of the transfer loop
    size,       \* runWithProbes: the loop variable
    ctxDone,    \* the context derived by context.WithTimeout is done
    parentDone, \* the context passed to measureMain is done
    elapsed,    \* milliseconds since context.WithTimeout
    ppc,        \* the goroutine running runProbes
    tick,       \* a value is buffered in ticker.C
    sizes,      \* history: sizes passed to doDownload/doUpload, this direction
    phases,     \* history: the steps measureMain has started, in order
    failed,     \* history: a chunk transfer of this direction has failed
    probeFailed, \* history: a probe of this direction has failed
    sinceDone,  \* history: milliseconds since the context became done,
                \* followed for two ticker periods
    unsampled   \* history: ticker periods of this direction that produced
                \* no probe record, counted up to MaxUnsampled

clientVars == <<mpc, tpc, size, ctxDone, parentDone, elapsed, ppc, tick,
                sizes, phases, failed, probeFailed, sinceDone, unsampled>>

VARIABLES
    sndPc,      \* sender: "start", "loop" (at the loop condition), "write"
                \* (at WritePreparedMessage) or "returned"
    sndSize,    \* sender: size
    sndTotal,   \* sender: total
    sndCtx,     \* sender: ctx.Err() != nil
    sndErr,     \* sender: what it returned, "nil" or "err"
    sndSent,    \* history: number of messages written
    sndClock    \* time.Since(start), in milliseconds

senderVars == <<sndPc, sndSize, sndTotal, sndCtx, sndErr, sndSent, sndClock>>

VARIABLES
    rcvPc,      \* receiver: "start", "loop" or "returned"
    rcvTotal,   \* receiver: total
    rcvCtx,     \* receiver: ctx.Err() != nil
    rcvErr,     \* receiver: what it returned, "nil" or "err"
    rcvReads,   \* history: number of messages asked of conn.NextReader
    rcvBinary,  \* history: sum of the lengths of the Binary messages read
    rcvPrinted, \* history: sum of the lengths of the Text messages printed
    rcvFailed   \* history: a read has failed

receiverVars == <<rcvPc, rcvTotal, rcvCtx, rcvErr, rcvReads, rcvBinary,
                  rcvPrinted, rcvFailed>>

VARIABLES
    upPc,       \* ndt7 handler: "idle", "upgrade", "run" or "returned"
    upPath,     \* the request: "download" or "upload"
    upProto,    \* the request: value of Sec-WebSocket-Protocol, "" if absent
    upShake,    \* the request: the rest of the handshake is well formed
    upDialed,   \* the request: it was made by dial
    upStatus,   \* the response: status code, 0 while none is written
    upRan,      \* history: what the handler ran, "sender", "receiver", "none"
    upLog       \* history: the requests handled before this one

upgradeVars == <<upPc, upPath, upProto, upShake, upDialed, upStatus, upRan,
                 upLog>>

VARIABLES
    ratePc,      \* "call" before the rate is computed, "done" after
    rateSite,    \* the function that computes the rate
    rateCount,   \* its input: a number of bytes
    rateElapsed, \* its input: the elapsed time, in milliseconds
    rateSpeed    \* its result: a float64

rateVars == <<ratePc, rateSite, rateCount, rateElapsed, rateSpeed>>

VARIABLES
    rdPc,       \* runWithProbes and doDownload: "loop", "read", "close" or
                \* "returned"
    rdNow,      \* the last reading of time.Now(), in ms since runWithProbes
                \* started
    rdChunk,    \* number of calls of doDownload so far
    rdReads,    \* number of calls of Read on the current wrapper
    rdDelta,    \* ReadCloser.delta
    rdT0,       \* ReadCloser.t0
    rdTot,      \* ReadCloser.tot
    rdTprev,    \* ReadCloser.tprev
    rdOut,      \* the last record the wrapper gave to slog.Info
    rdEmits,    \* number of records the current wrapper gave to slog.Info
    rdSum,      \* sum of the counts the Reads of the current wrapper returned
    rdBytes,    \* sum of the counts of all Reads of the direction
    rdMark      \* time the current wrapper was built or, after that, of its
                \* last "chunk read" record

readerVars == <<rdPc, rdNow, rdChunk, rdReads, rdDelta, rdT0, rdTot, rdTprev,
                rdOut, rdEmits, rdSum, rdBytes, rdMark>>

streamVars == <<senderVars, receiverVars, upgradeVars, rateVars, readerVars>>

vars == <<serverVars, clientVars, streamVars>>

(***************************************************************************)
(* strconv.ParseInt(s, 10, 64) on a path value given as a sequence of       *)
(* characters: optional sign, then at least one decimal digit, and a value  *)
(* between -2^63 and 2^63 - 1 (ErrRange otherwise).  The range is decided   *)
(* on the digits; the value itself is computed for the values within the    *)
(* integers of the model checker, the only ones the model draws.            *)
(***************************************************************************)
Digits == {"0", "1", "2", "3", "4", "5", "6", "7", "8", "9"}

DigitVal(c) ==
    CASE c = "0" -> 0 [] c = "1" -> 1 [] c = "2" -> 2 [] c = "3" -> 3
      [] c = "4" -> 4 [] c = "5" -> 5 [] c = "6" -> 6 [] c = "7" -> 7
      [] c = "8" -> 8 [] c = "9" -> 9

RECURSIVE ParseUint(_)
ParseUint(s) ==
    IF s = <<>> THEN 0
    ELSE ParseUint(SubSeq(s, 1, Len(s) - 1)) * 10 + DigitVal(s[Len(s)])

ParseInt(s) ==
    LET neg  == s # <<>> /\ s[1] = "-"
        body == IF s # <<>> /\ s[1] \in {"+", "-"} THEN Tail(s) ELSE s
        nz   == {i \in 1..Len(body) : body[i] # "0"}
        d    == IF nz = {} THEN << >>
                ELSE SubSeq(body, CHOOSE i \in nz : \A j \in nz : i <= j,
                            Len(body))
        lim  == <<"9", "2", "2", "3", "3", "7", "2", "0", "3", "6", "8", "5",
                  "4", "7", "7", "5", "8", "0", IF neg THEN "8" ELSE "7">>
        over == \/ Len(d) > Len(lim)
                \/ /\ Len(d) = Len(lim)
                   /\ \E i \in 1..Len(d) :
                         /\ DigitVal(d[i]) > DigitVal(lim[i])
                         /\ \A j \in 1..(i - 1) : d[j] = lim[j]
    IN  IF body = <<>> \/ \E i \in 1..Len(body) : body[i] \notin Digits
        THEN [err |-> TRUE, val |-> 0]
        ELSE IF over
        THEN [err |-> TRUE, val |-> 0]
        ELSE [err |-> FALSE,
              val |-> IF neg THEN 0 - ParseUint(body) ELSE ParseUint(body)]

\* strconv.FormatInt(n, 10): the decimal digits of n, after a minus sign
\* when n is negative
DigitChar(d) ==
    CASE d = 0 -> "0" [] d = 1 -> "1" [] d = 2 -> "2" [] d = 3 -> "3"
      [] d = 4 -> "4" [] d = 5 -> "5" [] d = 6 -> "6" [] d = 7 -> "7"
      [] d = 8 -> "8" [] d = 9 -> "9"

RECURSIVE FormatInt(_)
FormatInt(n) ==
    IF n < 0 THEN <<"-">> \o FormatInt(0 - n)
    ELSE IF n < 10 THEN <<DigitChar(n)>>
    ELSE Append(FormatInt(n \div 10), DigitChar(n % 10))

\* a check that also enforces the largest size the client asks for
badSizeLimited(p) == p.err \/ p.val <= 0 \/ p.val > 268435456

\* a check that lets a size of zero through
badSizeNegative(p) == p.err \/ p.val < 0

\* err != nil || count <= 0
badSize(p) == p.err \/ p.val <= 0

\* a handler that validates the size before it looks the session up
chunkRejectSizeFirst(ok, p) ==
    IF badSize(p) THEN StatusBadRequest
    ELSE IF ~ok THEN StatusNotFound ELSE 0

\* the early returns of handleGetChunk and handlePutChunk: the status written
\* when the request is rejected, 0 when it is accepted
chunkReject(ok, p) ==
    IF ~ok THEN StatusNotFound
    ELSE IF badSize(p) THEN StatusBadRequest ELSE 0

\* the {size} path values of concurrent requests: one that does not parse,
\* one that is not positive, one that is accepted
PathSizes == { <<>>, <<"0">>, <<"1">> }

(***************************************************************************)
(* The session registry (sessionManager).                                  *)
(***************************************************************************)
\* uuid.NewV7: a fresh, time-ordered identifier, larger than all before it
NewV7 == lastV7 + 1

\* an insert that stamps every entry anew
createSessionMapRestamp(id, t) == [x \in DOMAIN sessions \cup {id} |-> t]

\* an insert that starts from an empty map
createSessionMapFresh(id, t) == [x \in {id} |-> t]

\* sm.sessions[id] = time.Now()
createSessionMap(id, t) ==
    [x \in DOMAIN sessions \cup {id} |-> IF x = id THEN t ELSE sessions[x]]

\* a lookup that finds every id
sessionExistsAlways(sid) == TRUE

\* _, ok := sm.sessions[sid]
sessionExists(sid) == sid \in DOMAIN sessions

\* a delete that reports success for every id
deleteSessionOkAlways(sid) == TRUE

\* the value deleteSession returns
deleteSessionOk(sid) == sid \in DOMAIN sessions

\* a delete that empties the map
deleteSessionMapClear(sid) == [x \in {} |-> 0]

\* a delete that leaves the entry in the map
deleteSessionMapKeep(sid) == sessions

\* if ok { delete(sm.sessions, sid) }
deleteSessionMap(sid) ==
    IF deleteSessionOk(sid)
    THEN [x \in DOMAIN sessions \ {sid} |-> sessions[x]]
    ELSE sessions

\* a mutex that never blocks
canLockAlways == TRUE

\* sm.mu.Lock() returns only when no goroutine holds the mutex
canLock == mu = Free

\* a reader that is not limited
bodyUnlimited(count) == count + 1

\* io.LimitReader(r, count): the number of bytes it lets through
bodyLimit(count) == count

\* a handler that has just read its {sid} path value and holds the mutex;
\* path is the {size} path value of the request, which the handler reads once;
\* avail is the number of body bytes that reached the handler
NewReq(kind, sid, path) ==
    [kind |-> kind, pc |-> "locked", sid |-> sid, path |-> path,
     avail |-> 0, ok |-> FALSE, status |-> 0, count |-> 0,
     clen |-> << >>, n |-> 0, werr |-> FALSE]

\* the handlers running now, and handler h replaced by its next state h2
Handlers == BagToSet(req)
Replace(h, h2) == (req (-) SetToBag({h})) (+) SetToBag({h2})

ServerInit ==
    /\ sessions = << >>
    /\ mu = Free
    /\ lastV7 = 0
    /\ clock = 0
    /\ req = EmptyBag
    /\ issued = << >>
    /\ deleted = {}
    /\ del204 = [i \in Ids |-> 0]

(***************************************************************************)
(* A request reaches its handler, which reads the {sid} path value and      *)
(* enters the registry operation: sm.mu.Lock().  A handler blocked on the   *)
(* mutex is a request that has not arrived yet.                             *)
(***************************************************************************)
Lock(kind, sid, path) ==
    /\ BagCardinality(req) < MaxReqs
    /\ canLock
    /\ kind = "create" => lastV7 < MaxSessions /\ sid = 0
    /\ kind \notin {"get", "put"} => path = << >>
    /\ mu' = Held
    /\ req' = req (+) SetToBag({NewReq(kind, sid, path)})
    /\ UNCHANGED <<sessions, lastV7, clock, issued, deleted, del204>>
    /\ UNCHANGED <<clientVars, streamVars>>

(***************************************************************************)
(* handleCreateSession: createSession (under the mutex), then 201 and the   *)
(* JSON body carrying the id.                                               *)
(***************************************************************************)
handleCreateSession(h) ==
    /\ h.pc = "locked" /\ h.kind = "create" /\ mu = Held
    /\ clock' = clock + 1
    /\ sessions' = createSessionMap(NewV7, clock')
    /\ lastV7' = NewV7
    /\ issued' = Append(issued, NewV7)
    /\ req' = Replace(h, [h EXCEPT !.pc = "done", !.sid = NewV7, !.ok = TRUE,
                                   !.status = StatusCreated])
    /\ mu' = Free
    /\ UNCHANGED <<deleted, del204>>
    /\ UNCHANGED <<clientVars, streamVars>>

(***************************************************************************)
(* handleDeleteSession: deleteSession (under the mutex), then 404 or 204.   *)
(***************************************************************************)
handleDeleteSession(h) ==
    LET ok  == deleteSessionOk(h.sid)
        st  == IF ~ok THEN StatusNotFound ELSE StatusNoContent
    IN  /\ h.pc = "locked" /\ h.kind = "delete" /\ mu = Held
        /\ sessions' = deleteSessionMap(h.sid)
        /\ mu' = Free
        /\ deleted' = IF ok THEN deleted \cup {h.sid} ELSE deleted
        /\ del204' = IF st = StatusNoContent
                     THEN [del204 EXCEPT ![h.sid] = @ + 1] ELSE del204
        /\ req' = Replace(h, [h EXCEPT !.pc = "done", !.ok = ok, !.status = st])
        /\ UNCHANGED <<lastV7, clock, issued>>
        /\ UNCHANGED <<clientVars, streamVars>>

(***************************************************************************)
(* handleGetChunk up to WriteHeader: sessionExists (under the mutex), the   *)
(* size validation, the Content-Length header and the 200 status.           *)
(***************************************************************************)
handleGetChunk(h) ==
    LET ok  == sessionExists(h.sid)
        p   == ParseInt(h.path)
    IN  /\ h.pc = "locked" /\ h.kind = "get" /\ mu = Held
        /\ mu' = Free
        /\ req' = Replace(h,
              IF chunkReject(ok, p) # 0
              THEN [h EXCEPT !.pc = "done", !.ok = ok, !.path = << >>,
                             !.status = chunkReject(ok, p)]
              ELSE [h EXCEPT !.pc = "body", !.ok = ok, !.path = << >>,
                             !.status = StatusOK, !.count = p.val,
                             !.clen = FormatInt(p.val)])
        /\ UNCHANGED <<sessions, lastV7, clock, issued, deleted, del204>>
        /\ UNCHANGED <<clientVars, streamVars>>

(***************************************************************************)
(* handleGetChunk, io.CopyBuffer(rw, bodyReader, buf): the copy ends at the  *)
(* limit of bodyReader, or before it with the error of a failed write.      *)
(***************************************************************************)
handleGetChunkBody(h, written) ==
    /\ h.pc = "body" /\ h.kind = "get"
    /\ written \in 0..bodyLimit(h.count)
    /\ req' = Replace(h, [h EXCEPT !.pc = "done", !.n = written,
                                   !.werr = (written < bodyLimit(h.count))])
    /\ UNCHANGED <<sessions, mu, lastV7, clock, issued, deleted, del204>>
    /\ UNCHANGED <<clientVars, streamVars>>

(***************************************************************************)
(* handlePutChunk up to the body: sessionExists and the size validation.    *)
(***************************************************************************)
handlePutChunk(h) ==
    LET ok  == sessionExists(h.sid)
        p   == ParseInt(h.path)
    IN  /\ h.pc = "locked" /\ h.kind = "put" /\ mu = Held
        /\ mu' = Free
        /\ req' = Replace(h,
              IF chunkReject(ok, p) # 0
              THEN [h EXCEPT !.pc = "done", !.ok = ok, !.path = << >>,
                             !.status = chunkReject(ok, p)]
              ELSE [h EXCEPT !.pc = "body", !.ok = ok, !.path = << >>,
                             !.count = p.val])
        /\ UNCHANGED <<sessions, lastV7, clock, issued, deleted, del204>>
        /\ UNCHANGED <<clientVars, streamVars>>

(***************************************************************************)
(* handlePutChunk, io.CopyBuffer(io.Discard, LimitReader(req.Body)): the    *)
(* handler counts what it can read of the body, at most expectCount, and     *)
(* answers 204.                                                             *)
(***************************************************************************)
handlePutChunkBody(h, avail) ==
    /\ h.pc = "body" /\ h.kind = "put"
    /\ req' = Replace(h, [h EXCEPT !.pc = "done", !.avail = avail,
                                   !.n = IF avail < bodyLimit(h.count)
                                         THEN avail
                                         ELSE bodyLimit(h.count),
                                   !.status = StatusNoContent])
    /\ UNCHANGED <<sessions, mu, lastV7, clock, issued, deleted, del204>>
    /\ UNCHANGED <<clientVars, streamVars>>

(***************************************************************************)
(* handleProbe: sessionExists (under the mutex), then 404 or 204.           *)
(***************************************************************************)
handleProbe(h) ==
    LET ok  == sessionExists(h.sid)
    IN  /\ h.pc = "locked" /\ h.kind = "probe" /\ mu = Held
        /\ mu' = Free
        /\ req' = Replace(h, [h EXCEPT !.pc = "done", !.ok = ok,
                                       !.status = IF ~ok THEN StatusNotFound
                                                  ELSE StatusNoContent])
        /\ UNCHANGED <<sessions, lastV7, clock, issued, deleted, del204>>
        /\ UNCHANGED <<clientVars, streamVars>>

\* the handler has returned and the response is with the client
Complete(h) ==
    /\ h.pc = "done"
    /\ req' = req (-) SetToBag({h})
    /\ UNCHANGED <<sessions, mu, lastV7, clock, issued, deleted, del204>>
    /\ UNCHANGED <<clientVars, streamVars>>

Kind == {"create", "delete", "get", "put", "probe"}

ServerNext ==
    \/ \E kind \in Kind, sid \in Ids, path \in PathSizes :
          Lock(kind, sid, path)
    \/ \E h \in Handlers : handleCreateSession(h)
    \/ \E h \in Handlers : handleDeleteSession(h)
    \/ \E h \in Handlers : handleGetChunk(h)
    \/ \E h \in Handlers, written \in 0..1 : handleGetChunkBody(h, written)
    \/ \E h \in Handlers : handlePutChunk(h)
    \/ \E h \in Handlers, avail \in 0..2 : handlePutChunkBody(h, avail)
    \/ \E h \in Handlers : handleProbe(h)
    \/ \E h \in Handlers : Complete(h)

(***************************************************************************)
(* Properties of the server.                                                *)
(***************************************************************************)
Range(s) == {s[i] : i \in 1..Len(s)}

Present(id) == id \in DOMAIN sessions

ChunkOrProbe(h) == h.kind \in {"get", "put", "probe"}

\* this step is handler h running its registry operation and becoming h2
Checks(h, h2) ==
    /\ h \in Handlers /\ h.pc = "locked"
    /\ h2.pc # "locked"
    /\ req' = Replace(h, h2)

C1Checked ==
    \A h \in Handlers, h2 \in BagToSet(req') :
        ChunkOrProbe(h) /\ Checks(h, h2) => h2.ok = Present(h.sid)

C1Answer(h) ==
    ChunkOrProbe(h) /\ h.pc \in {"body", "done"} =>
        /\ h.status \in {StatusOK, StatusNoContent} => h.ok
        /\ ~h.ok => h.status = StatusNotFound /\ h.pc = "done" /\ h.n = 0

\* C1: the GET-chunk, PUT-chunk and probe handlers answer 200/204 only when
\* the session id was in the registry at the handler's check; an id absent at
\* that check is answered 404 and no byte is transferred.
C1_AcceptOnlyPresent ==
    /\ [](\A h \in Handlers : C1Answer(h))
    /\ [][C1Checked]_vars

\* a chunk is being served for a session deleted since the check, while a
\* probe for the same id is answered 404
C1_Witness ==
    \E h1, h2 \in Handlers :
        /\ h1.kind = "get" /\ h1.pc = "body" /\ h1.ok
        /\ h1.status = StatusOK
        /\ h2.kind = "probe" /\ h2.pc = "done"
        /\ h2.sid = h1.sid
        /\ h2.status = StatusNotFound

C2State ==
    \A id \in Ids :
        /\ id \notin Range(issued) => ~sessionExists(id)
        /\ id \in deleted => ~sessionExists(id)

C2Created ==
    Len(issued') = Len(issued) + 1 =>
        /\ ~sessionExists(issued'[Len(issued')])
        /\ issued'[Len(issued')] \in DOMAIN sessions'

\* C2: sessionExists(id) is false before createSession has returned id, true
\* right after createSession returns it, and false after a deleteSession(id)
\* that returned true, for ever.
C2_ExistsLifecycle == []C2State /\ [][C2Created]_vars

\* one id has been created and deleted and a later created id is present
C2_Witness ==
    \E a, b \in Range(issued) :
        a \in deleted /\ ~sessionExists(a) /\ b \notin deleted /\ sessionExists(b)

C3State ==
    /\ \A i, j \in 1..Len(issued) : i # j => issued[i] # issued[j]
    /\ \A h \in Handlers : h.kind = "create" /\ h.pc = "done" =>
           h.status = StatusCreated /\ h.sid \in Range(issued)

C3Step ==
    \A h \in Handlers, h2 \in BagToSet(req') :
        h.kind = "create" /\ Checks(h, h2) =>
            /\ Len(issued') = Len(issued) + 1
            /\ issued'[Len(issued')] \notin Range(issued)
            /\ Cardinality(DOMAIN sessions') = Cardinality(DOMAIN sessions) + 1
            /\ h2.pc = "done"
            /\ h2.status = StatusCreated
            /\ h2.sid = issued'[Len(issued')]

\* C3: every createSession call returns an id different from all ids returned
\* so far, the registry grows by exactly one entry per call, and the POST
\* handler answers 201 with that id.
C3_CreateFreshIds == []C3State /\ [][C3Step]_vars

\* two create requests are answered at the same time, with different ids
C3_Witness ==
    \E h1, h2 \in Handlers :
        /\ h1.kind = "create" /\ h1.pc = "done"
        /\ h2.kind = "create" /\ h2.pc = "done"
        /\ h1.sid # h2.sid
        /\ Cardinality(DOMAIN sessions) = 2

C4State ==
    \A id \in Ids :
        /\ del204[id] <= 1
        /\ id \in Range(issued) /\ ~Present(id) => del204[id] = 1

C4Step ==
    \A h \in Handlers, h2 \in BagToSet(req') :
        h.kind = "delete" /\ Checks(h, h2) =>
            /\ h2.pc = "done"
            /\ h2.status = IF Present(h.sid) THEN StatusNoContent
                           ELSE StatusNotFound
            /\ DOMAIN sessions' = DOMAIN sessions \ {h.sid}
            /\ \A x \in DOMAIN sessions' : sessions'[x] = sessions[x]

\* C4: the DELETE handler removes the entry if present, answers 204 exactly
\* when the id was present and 404 otherwise, at most one DELETE of an id is
\* ever answered 204, and no other id's entry changes.
C4_DeleteOnce == []C4State /\ [][C4Step]_vars

\* two DELETE requests for one created id: one got 204, the other 404, and
\* the other session is still there
C4_Witness ==
    \E h1, h2 \in Handlers :
        /\ h1.kind = "delete" /\ h1.pc = "done"
        /\ h2.kind = "delete" /\ h2.pc = "done"
        /\ h1.sid = h2.sid /\ h1.sid \in Range(issued)
        /\ h1.status = StatusNoContent
        /\ h2.status = StatusNotFound
        /\ DOMAIN sessions # {}


(***************************************************************************)
(* Part II: the ndt8 client, cmd/ndt8/measure.go.                           *)
(*                                                                         *)
(* Time is counted in milliseconds and advances by one ticker period at a   *)
(* time: a request may take any number of periods, including none.          *)
(***************************************************************************)
initialChunkSize == 32
maxChunkSize == 268435456
timeBudget == 10000
probeInterval == 250

ClientInit ==
    /\ mpc = "create"
    /\ tpc = "none"
    /\ size = initialChunkSize
    /\ ctxDone = FALSE
    /\ parentDone = FALSE
    /\ elapsed = 0
    /\ ppc = "none"
    /\ tick = FALSE
    /\ sizes = << >>
    /\ phases = << >>
    /\ failed = FALSE
    /\ probeFailed = FALSE
    /\ sinceDone = 0
    /\ unsampled = 0

\* a context that does not observe its parent
childDetached(parent) == FALSE

\* context.WithTimeout(ctx, timeBudget): the derived context is done whenever
\* its parent is
childDone(parent) == parent

\* the loop keeps going whatever the context says
ctxErrIgnored == FALSE

\* ctx.Err() != nil
ctxErr == ctxDone

\* a loop condition without the upper limit
sizeInRangeNoLimit(sz) == TRUE

\* size <= maxChunkSize
sizeInRange(sz) == sz <= maxChunkSize

\* a loop variable that stays as it is
nextSizeSame(sz) == sz

\* size *= 2
nextSize(sz) == sz * 2

\* a direction that stops the measurement when a transfer failed
afterDirectionAbort(dir) ==
    IF failed THEN "done" ELSE IF dir = "download" THEN "upload" ELSE "delete"

\* measureMain after runWithProbes returns: upload follows download, the
\* session delete follows upload
afterDirection(dir) == IF dir = "download" THEN "upload" ELSE "delete"

\* a join that does not wait
probesJoinedNoWait == TRUE

\* wg.Wait() returns once the goroutine running runProbes has returned
probesJoined == ppc = "exited"

\* a scheduler that gives up after a failed probe
afterProbeStop(ok) == IF ok THEN "select" ELSE "exited"

\* runProbes after probeOnce returns: back to the select, whatever happened
afterProbe(ok) == "select"

\* a scheduler that is left waiting although it could run
probesRunnableNever == FALSE

\* runProbes has a step to take that waits for nothing: time.NewTicker, a
\* select with a ready case, probeOnce up to client.Do, and a client.Do whose
\* context is done, which returns at once.  No ticker period passes before
\* these steps are taken.
probesRunnable ==
    \/ ppc \in {"start", "probe"}
    \/ ppc = "select" /\ (tick \/ ctxDone)
    \/ ppc = "do" /\ ctxDone

\* one more ticker period without a probe record
noSample(n) == IF n < MaxUnsampled THEN n + 1 ELSE n

\* one more ticker period since the context became done
sinceNext(t) == IF t > probeInterval THEN t ELSE t + probeInterval

\* outcomes of a request that got a response
Statuses == {StatusOK, StatusNoContent, StatusBadRequest, StatusNotFound}
Success(st) == st \in {StatusOK, StatusNoContent}

(***************************************************************************)
(* measureMain, step 1: createSession.  Any failure is fatal to the         *)
(* process (LogFatalOnError, Assert).                                       *)
(***************************************************************************)
clientCreateSession(ok) ==
    /\ mpc = "create"
    /\ mpc' = IF ok THEN "download" ELSE "fatal"
    /\ UNCHANGED <<tpc, size, ctxDone, parentDone, elapsed, ppc, tick,
                   sizes, phases, failed, probeFailed, sinceDone, unsampled>>
    /\ UNCHANGED <<serverVars, streamVars>>

(***************************************************************************)
(* runWithProbes, entry: context.WithTimeout, wg.Go(runProbes), and the     *)
(* loop initialisation.                                                     *)
(***************************************************************************)
runWithProbes ==
    /\ mpc \in {"download", "upload"} /\ tpc = "none"
    /\ tpc' = "loop"
    /\ size' = initialChunkSize
    /\ ctxDone' = childDone(parentDone)
    /\ elapsed' = 0
    /\ ppc' = "start"
    /\ tick' = FALSE
    /\ sizes' = << >>
    /\ phases' = Append(phases, mpc)
    /\ failed' = FALSE
    /\ probeFailed' = FALSE
    /\ sinceDone' = 0
    /\ unsampled' = 0
    /\ UNCHANGED <<mpc, parentDone>>
    /\ UNCHANGED <<serverVars, streamVars>>

\* the for condition and the ctx.Err() check at the top of the loop body
loopCheck ==
    /\ tpc = "loop"
    /\ tpc' = IF sizeInRange(size) /\ ~ctxErr THEN "call" ELSE "cancel"
    /\ UNCHANGED <<mpc, size, ctxDone, parentDone, elapsed, ppc, tick,
                   sizes, phases, failed, probeFailed, sinceDone, unsampled>>
    /\ UNCHANGED <<serverVars, streamVars>>

(***************************************************************************)
(* doDownload / doUpload up to client.Do: a request whose context is done   *)
(* fails at once and is not sent; otherwise it is in flight.                *)
(***************************************************************************)
doRequest ==
    /\ tpc = "call"
    /\ sizes' = Append(sizes, size)
    /\ IF ctxDone
       THEN /\ failed' = TRUE
            /\ size' = nextSize(size)
            /\ tpc' = "loop"
       ELSE /\ tpc' = "do"
            /\ UNCHANGED <<failed, size>>
    /\ UNCHANGED <<mpc, ctxDone, parentDone, elapsed, ppc, tick, phases,
                   probeFailed, sinceDone, unsampled>>
    /\ UNCHANGED <<serverVars, streamVars>>

(***************************************************************************)
(* client.Do returns: a transport error ends doDownload/doUpload; a         *)
(* response of any status is logged, and doDownload goes on to the body.    *)
(***************************************************************************)
doError ==
    /\ tpc = "do"
    /\ failed' = TRUE
    /\ size' = nextSize(size)
    /\ tpc' = "loop"
    /\ UNCHANGED <<mpc, ctxDone, parentDone, elapsed, ppc, tick, sizes,
                   phases, probeFailed, sinceDone, unsampled>>
    /\ UNCHANGED <<serverVars, streamVars>>

doResponse(st) ==
    /\ tpc = "do"
    /\ failed' = (failed \/ ~Success(st))
    /\ IF mpc = "download"
       THEN tpc' = "body" /\ UNCHANGED size
       ELSE tpc' = "loop" /\ size' = nextSize(size)
    /\ UNCHANGED <<mpc, ctxDone, parentDone, elapsed, ppc, tick, sizes,
                   phases, probeFailed, sinceDone, unsampled>>
    /\ UNCHANGED <<serverVars, streamVars>>

\* doDownload: io.CopyBuffer to the end of the body or to a read error, then
\* the deferred Close
doBody(ok) ==
    /\ tpc = "body"
    /\ failed' = (failed \/ ~ok)
    /\ size' = nextSize(size)
    /\ tpc' = "loop"
    /\ UNCHANGED <<mpc, ctxDone, parentDone, elapsed, ppc, tick, sizes,
                   phases, probeFailed, sinceDone, unsampled>>
    /\ UNCHANGED <<serverVars, streamVars>>

\* cancel() after the loop
cancel ==
    /\ tpc = "cancel"
    /\ ctxDone' = TRUE
    /\ sinceDone' = IF ctxDone THEN sinceDone ELSE 0
    /\ UNCHANGED unsampled
    /\ tpc' = "wait"
    /\ UNCHANGED <<mpc, size, parentDone, elapsed, ppc, tick, sizes, phases,
                   failed, probeFailed>>
    /\ UNCHANGED <<serverVars, streamVars>>

\* wg.Wait(), then runWithProbes returns to measureMain
wait ==
    /\ tpc = "wait"
    /\ probesJoined
    /\ tpc' = "none"
    /\ mpc' = afterDirection(mpc)
    /\ UNCHANGED <<size, ctxDone, parentDone, elapsed, ppc, tick, sizes,
                   phases, failed, probeFailed, sinceDone, unsampled>>
    /\ UNCHANGED <<serverVars, streamVars>>

(***************************************************************************)
(* measureMain, step 4: deleteSession.  Its outcome is only logged.         *)
(***************************************************************************)
clientDeleteSession ==
    /\ mpc = "delete"
    /\ phases' = Append(phases, "delete")
    /\ mpc' = "done"
    /\ UNCHANGED <<tpc, size, ctxDone, parentDone, elapsed, ppc, tick,
                   sizes, failed, probeFailed, sinceDone, unsampled>>
    /\ UNCHANGED <<serverVars, streamVars>>

(***************************************************************************)
(* runProbes.                                                               *)
(***************************************************************************)
\* time.NewTicker
newTicker ==
    /\ ppc = "start"
    /\ ppc' = "select"
    /\ tick' = FALSE
    /\ UNCHANGED <<mpc, tpc, size, ctxDone, parentDone, elapsed, sizes,
                   phases, failed, probeFailed, sinceDone, unsampled>>
    /\ UNCHANGED <<serverVars, streamVars>>

\* case <-ctx.Done(): return (and the deferred ticker.Stop)
selectDone ==
    /\ ppc = "select"
    /\ ctxDone
    /\ ppc' = "exited"
    /\ unsampled' = IF tick THEN noSample(unsampled) ELSE unsampled
    /\ UNCHANGED <<mpc, tpc, size, ctxDone, parentDone, elapsed, tick, sizes,
                   phases, failed, probeFailed, sinceDone>>
    /\ UNCHANGED <<serverVars, streamVars>>

\* case <-ticker.C: a fresh probe id, then probeOnce
selectTick ==
    /\ ppc = "select"
    /\ tick
    /\ tick' = FALSE
    /\ ppc' = "probe"
    /\ UNCHANGED <<mpc, tpc, size, ctxDone, parentDone, elapsed, sizes,
                   phases, failed, probeFailed, sinceDone, unsampled>>
    /\ UNCHANGED <<serverVars, streamVars>>

\* probeOnce up to client.Do: not sent when the context is done
probeRequest ==
    /\ ppc = "probe"
    /\ IF ctxDone
       THEN /\ ppc' = afterProbe(FALSE) /\ probeFailed' = TRUE
            /\ unsampled' = noSample(unsampled)
       ELSE ppc' = "do" /\ UNCHANGED <<probeFailed, unsampled>>
    /\ UNCHANGED <<mpc, tpc, size, ctxDone, parentDone, elapsed, tick, sizes,
                   phases, failed, sinceDone>>
    /\ UNCHANGED <<serverVars, streamVars>>

\* probeOnce: client.Do returns an error, and probeOnce returns without a
\* record
probeError ==
    /\ ppc = "do"
    /\ ppc' = afterProbe(FALSE)
    /\ probeFailed' = TRUE
    /\ unsampled' = noSample(unsampled)
    /\ UNCHANGED <<mpc, tpc, size, ctxDone, parentDone, elapsed, tick, sizes,
                   phases, failed, sinceDone>>
    /\ UNCHANGED <<serverVars, streamVars>>

\* probeOnce: client.Do returns a response, which is logged
probeResponse(st) ==
    /\ ppc = "do"
    /\ ppc' = afterProbe(Success(st))
    /\ probeFailed' = (probeFailed \/ ~Success(st))
    /\ UNCHANGED <<mpc, tpc, size, ctxDone, parentDone, elapsed, tick, sizes,
                   phases, failed, sinceDone, unsampled>>
    /\ UNCHANGED <<serverVars, streamVars>>

(***************************************************************************)
(* The environment: time passes and the caller may cancel.                  *)
(***************************************************************************)
\* one ticker period passes: the ticker fires, and the timer of
\* context.WithTimeout fires when the budget is used up
advance ==
    /\ tpc # "none"
    /\ ~probesRunnable
    /\ elapsed < timeBudget + MaxOverrun * probeInterval
    /\ elapsed' = elapsed + probeInterval
    /\ tick' = (tick \/ ppc \in {"select", "probe", "do"})
    /\ ctxDone' = (ctxDone \/ elapsed' >= timeBudget)
    /\ sinceDone' = IF ctxDone THEN sinceNext(sinceDone) ELSE 0
    /\ unsampled' = IF ppc \in {"select", "probe", "do"} /\ ~tick
                    THEN unsampled ELSE noSample(unsampled)
    /\ UNCHANGED <<mpc, tpc, size, parentDone, ppc, sizes, phases, failed,
                   probeFailed>>
    /\ UNCHANGED <<serverVars, streamVars>>

\* the context passed to measureMain is cancelled
parentCancel ==
    /\ ~parentDone
    /\ mpc \notin {"create", "done", "fatal"}
    /\ parentDone' = TRUE
    /\ ctxDone' = (ctxDone \/ (tpc # "none" /\ childDone(parentDone')))
    /\ UNCHANGED <<sinceDone, unsampled>>
    /\ UNCHANGED <<mpc, tpc, size, elapsed, ppc, tick, sizes, phases, failed,
                   probeFailed>>
    /\ UNCHANGED <<serverVars, streamVars>>

ClientNext ==
    \/ \E ok \in BOOLEAN : clientCreateSession(ok)
    \/ runWithProbes
    \/ loopCheck
    \/ doRequest
    \/ doError
    \/ \E st \in Statuses : doResponse(st)
    \/ \E ok \in BOOLEAN : doBody(ok)
    \/ cancel
    \/ wait
    \/ clientDeleteSession
    \/ newTicker
    \/ selectDone
    \/ selectTick
    \/ probeRequest
    \/ probeError
    \/ \E st \in Statuses : probeResponse(st)
    \/ advance
    \/ parentCancel

(***************************************************************************)
(* Properties of the client.                                                *)
(***************************************************************************)
Running == tpc # "none"

\* C5: the chunk sizes runWithProbes requests are a prefix of 32, 64, 128,
\* ..., 268435456: the first is 32, each next one is twice the one before,
\* and none is larger than 256 MiB.
C5_SizesDouble ==
    /\ \A i \in 1..Len(sizes) :
          /\ sizes[i] = initialChunkSize * 2 ^ (i - 1)
          /\ sizes[i] <= maxChunkSize
    /\ Len(sizes) >= 1 => sizes[1] = initialChunkSize
    /\ tpc \in {"call", "do", "body"} => size <= maxChunkSize

\* the whole sequence has been requested, up to the 256 MiB chunk
C5_Witness ==
    /\ Len(sizes) = 24
    /\ sizes[24] = maxChunkSize
    /\ tpc = "do"

C6Step ==
    /\ ctxDone /\ tpc = "loop" => tpc' \in {"loop", "cancel"}
    /\ ctxDone /\ tpc # "do" => tpc' # "do"

\* C6: once the shared context is done (deadline or cancel), the loop check
\* ends the loop and no further chunk request is put in flight; only a
\* transfer already in flight may still be running.
C6_NoTransferAfterDone == [][C6Step]_vars

\* the deadline has passed while a chunk transfer is in flight
C6_Witness ==
    /\ tpc = "do" /\ ctxDone /\ ~parentDone
    /\ elapsed >= timeBudget
    /\ Len(sizes) > 1

\* C7: after a failed doDownload or doUpload, runWithProbes issues no further
\* chunk request for that direction.
C7_NoRequestAfterFailure == [][failed /\ tpc = "loop" => tpc' # "call"]_vars

FullRun == <<"download", "upload", "delete">>

ClientStep ==
    \/ runWithProbes \/ loopCheck \/ doRequest \/ doError
    \/ (\E st \in Statuses : doResponse(st)) \/ (\E ok \in BOOLEAN : doBody(ok))
    \/ cancel \/ wait \/ clientDeleteSession
    \/ newTicker \/ selectDone \/ selectTick \/ probeRequest \/ probeError
    \/ (\E st \in Statuses : probeResponse(st))

\* C8: after the session is created, measureMain runs the download
\* direction, the upload direction and one session delete, in this order and
\* one after the other, and it stops nowhere else, whatever transfers or
\* probes failed.
C8_DownloadUploadDelete ==
    /\ \E k \in 0..3 : phases = SubSeq(FullRun, 1, k)
    /\ mpc \in {"create", "fatal"} => phases = << >>
    /\ Running => mpc \in {"download", "upload"} /\ phases[Len(phases)] = mpc
    /\ mpc = "upload" => phases[1] = "download"
    /\ mpc = "delete" => ~Running /\ phases = SubSeq(FullRun, 1, 2)
    /\ mpc = "done" => ~Running /\ phases = FullRun
    /\ mpc \in {"download", "upload", "delete"} => ENABLED ClientStep

\* the measurement is complete although the upload direction had a failed
\* transfer and a failed probe
C8_Witness ==
    /\ mpc = "done"
    /\ phases = FullRun
    /\ failed /\ probeFailed
    /\ ~parentDone

\* C9: runWithProbes returns only after it has cancelled the shared context
\* and the goroutine running runProbes has returned (no probe in flight).
C9_ProbesJoined ==
    /\ ~Running => ppc \in {"none", "exited"}
    /\ ~Running /\ mpc \in {"upload", "delete", "done"} => ctxDone
    /\ tpc = "wait" => ctxDone

\* runWithProbes has returned after the loop ran out of sizes within the
\* time budget, and runProbes had returned before
C9_Witness ==
    /\ ~Running /\ mpc = "upload"
    /\ size > maxChunkSize
    /\ elapsed < timeBudget
    /\ ~parentDone
    /\ ppc = "exited"

C10Step ==
    /\ ppc # "exited" /\ ppc' = "exited" => ppc = "select" /\ ctxDone
    /\ ppc \in {"probe", "do"} /\ ppc' \notin {"probe", "do"} => ppc' = "select"

C10State == probeFailed /\ ppc = "exited" => ctxDone

\* C10: a failed probe does not stop runProbes: after probeOnce returns, with
\* or without an error, runProbes is back at its select, and it returns only
\* from there and only when the shared context is done.
C10_ProbeFailureTolerated == []C10State /\ [][C10Step]_vars

\* a probe is in flight after an earlier probe of the direction failed
C10_Witness ==
    /\ probeFailed
    /\ ppc = "do"
    /\ ~ctxDone

C12State == ctxDone /\ ppc \in {"probe", "do"} => sinceDone <= probeInterval

C12Step ==
    ctxDone /\ ppc = "select" /\ ppc' = "probe" => sinceDone <= probeInterval

minMessageSize == 1024
maxScaledMessageSize == 1048576
fractionForScaling == 16
\* maxRuntime = 10 * time.Second, in milliseconds
maxRuntime == 10000
\* the clock of the sender is followed in steps of half the budget
ClockStep == 5000

SenderInit ==
    /\ sndPc = "start"
    /\ sndSize = 0
    /\ sndTotal = 0
    /\ sndCtx = FALSE
    /\ sndErr = "none"
    /\ sndSent = 0
    /\ sndClock = 0

\* a size that grows by one minimum message at a time
nextMessageSizeAdd(sz) == sz + minMessageSize

\* size <<= 1
nextMessageSize(sz) == sz * 2

\* a sender that keeps scaling past the maximum scaled size
atMaxScaledNever(sz) == FALSE

\* int64(size) >= maxScaledMessageSize
atMaxScaled(sz) == sz >= maxScaledMessageSize

\* a sender that scales whatever it has sent
aboveFractionNever(sz, tot) == FALSE

\* int64(size) >= (total / fractionForScaling)
aboveFraction(sz, tot) == sz >= tot \div fractionForScaling

\* the end of one loop iteration: the size of the next message, given the
\* size just sent and the total that includes it
scaledSize(sz, tot) ==
    IF atMaxScaled(sz) \/ aboveFraction(sz, tot)
    THEN sz
    ELSE nextMessageSize(sz)

\* sender up to the loop: the write deadline, the first size, the first
\* message, the ticker
senderStart(ok) ==
    /\ sndPc = "start"
    /\ IF ok
       THEN /\ sndPc' = "loop"
            /\ sndSize' = minMessageSize
            /\ UNCHANGED sndErr
       ELSE /\ sndPc' = "returned"
            /\ sndErr' = "err"
            /\ UNCHANGED sndSize
    /\ sndTotal' = 0
    /\ UNCHANGED <<sndCtx, sndSent, sndClock>>
    /\ UNCHANGED readerVars
    /\ UNCHANGED <<serverVars, clientVars, receiverVars, upgradeVars,
                   rateVars>>

\* a connection without a write deadline
pastDeadlineNever(t) == FALSE

\* conn.SetWriteDeadline(start.Add(maxRuntime)): a write fails once the
\* deadline has come
pastDeadline(t) == t >= maxRuntime

\* the loop condition fails: return nil
senderDone ==
    /\ sndPc = "loop"
    /\ sndCtx
    /\ sndPc' = "returned"
    /\ sndErr' = "nil"
    /\ UNCHANGED <<sndSize, sndTotal, sndCtx, sndSent, sndClock>>
    /\ UNCHANGED readerVars
    /\ UNCHANGED <<serverVars, clientVars, receiverVars, upgradeVars,
                   rateVars>>

\* the loop condition holds: ctx.Err() == nil
senderCheck ==
    /\ sndPc = "loop"
    /\ ~sndCtx
    /\ sndPc' = "write"
    /\ UNCHANGED <<sndSize, sndTotal, sndCtx, sndErr, sndSent, sndClock>>
    /\ UNCHANGED readerVars
    /\ UNCHANGED <<serverVars, clientVars, receiverVars, upgradeVars,
                   rateVars>>

\* the rest of one iteration of the loop: WritePreparedMessage, which
\* succeeds only before the write deadline, total, the report when the
\* ticker has fired, the scaling of the size
senderSend(ok) ==
    /\ sndPc = "write"
    /\ ok => sndSent < MaxSends /\ ~pastDeadline(sndClock)
    /\ IF ok
       THEN /\ sndTotal' = sndTotal + sndSize
            /\ sndSize' = scaledSize(sndSize, sndTotal')
            /\ sndSent' = sndSent + 1
            /\ sndPc' = "loop"
            /\ UNCHANGED sndErr
       ELSE /\ sndPc' = "returned"
            /\ sndErr' = "err"
            /\ UNCHANGED <<sndSize, sndTotal, sndSent>>
    /\ UNCHANGED <<sndCtx, sndClock>>
    /\ UNCHANGED readerVars
    /\ UNCHANGED <<serverVars, clientVars, receiverVars, upgradeVars,
                   rateVars>>

\* the context of the sender is cancelled (the request ends, or the caller
\* of measureMain cancels)
senderCancel ==
    /\ sndPc \in {"start", "loop", "write"}
    /\ ~sndCtx
    /\ sndCtx' = TRUE
    /\ UNCHANGED <<sndPc, sndSize, sndTotal, sndErr, sndSent, sndClock>>
    /\ UNCHANGED readerVars
    /\ UNCHANGED <<serverVars, clientVars, receiverVars, upgradeVars,
                   rateVars>>

\* time passes while the sender is in its loop; the clock is followed until
\* it is past the write deadline
senderTime ==
    /\ sndPc \in {"loop", "write"}
    /\ sndClock <= maxRuntime
    /\ sndClock' = sndClock + ClockStep
    /\ UNCHANGED <<sndPc, sndSize, sndTotal, sndCtx, sndErr, sndSent>>
    /\ UNCHANGED readerVars
    /\ UNCHANGED <<serverVars, clientVars, receiverVars, upgradeVars,
                   rateVars>>

SenderNext ==
    \/ \E ok \in BOOLEAN : senderStart(ok)
    \/ senderDone
    \/ senderCheck
    \/ \E ok \in BOOLEAN : senderSend(ok)
    \/ senderCancel
    \/ senderTime

(***************************************************************************)
(* Part IV: the ndt7 stream engine, receiver.                               *)
(***************************************************************************)
TextMessage == "text"
BinaryMessage == "binary"
Kinds == {TextMessage, BinaryMessage}

\* payload lengths of the messages received
Lengths == 0..MaxLength

\* what a read gives: a whole message, an error of conn.NextReader (the read
\* deadline, the read limit, a closed connection), or an error while the
\* payload is read
Reads == {"ok", "NextReader", "payload"}

ReceiverInit ==
    /\ rcvPc = "start"
    /\ rcvTotal = 0
    /\ rcvCtx = FALSE
    /\ rcvErr = "none"
    /\ rcvReads = 0
    /\ rcvBinary = 0
    /\ rcvPrinted = 0
    /\ rcvFailed = FALSE

\* a receiver that goes on to the next message after a failed read
afterReadErrorContinue == "loop"

\* if err != nil { return err }
afterReadError == "returned"

\* receiver up to the loop: the read deadline, the read limit, the ticker
receiverStart(ok) ==
    /\ rcvPc = "start"
    /\ rcvPc' = IF ok THEN "loop" ELSE "returned"
    /\ rcvErr' = IF ok THEN rcvErr ELSE "err"
    /\ rcvTotal' = 0
    /\ UNCHANGED <<rcvCtx, rcvReads, rcvBinary, rcvPrinted, rcvFailed>>
    /\ UNCHANGED readerVars
    /\ UNCHANGED <<serverVars, clientVars, senderVars, upgradeVars,
                   rateVars>>

\* the loop condition fails: return nil
receiverDone ==
    /\ rcvPc = "loop"
    /\ rcvCtx
    /\ rcvPc' = "returned"
    /\ rcvErr' = "nil"
    /\ UNCHANGED <<rcvTotal, rcvCtx, rcvReads, rcvBinary, rcvPrinted,
                   rcvFailed>>
    /\ UNCHANGED readerVars
    /\ UNCHANGED <<serverVars, clientVars, senderVars, upgradeVars,
                   rateVars>>

\* one iteration of the loop: conn.NextReader, then io.ReadAll and the print
\* for a Text message, io.Copy to io.Discard for a Binary one, total, and
\* for a Binary message the report when the ticker has fired
receiverRead(kind, n, res) ==
    /\ rcvPc = "loop"
    /\ ~rcvCtx
    /\ rcvReads < MaxReads
    /\ rcvReads' = rcvReads + 1
    /\ IF res = "ok"
       THEN /\ rcvTotal' = rcvTotal + n
            /\ rcvBinary' = IF kind = BinaryMessage THEN rcvBinary + n
                                                    ELSE rcvBinary
            /\ rcvPrinted' = IF kind = TextMessage THEN rcvPrinted + n
                                                   ELSE rcvPrinted
            /\ UNCHANGED <<rcvPc, rcvErr, rcvFailed>>
       ELSE /\ rcvFailed' = TRUE
            /\ rcvPc' = afterReadError
            /\ rcvErr' = IF rcvPc' = "returned" THEN "err" ELSE rcvErr
            /\ UNCHANGED <<rcvTotal, rcvBinary, rcvPrinted>>
    /\ UNCHANGED rcvCtx
    /\ UNCHANGED readerVars
    /\ UNCHANGED <<serverVars, clientVars, senderVars, upgradeVars,
                   rateVars>>

\* the context of the receiver is cancelled
receiverCancel ==
    /\ rcvPc \in {"start", "loop"}
    /\ ~rcvCtx
    /\ rcvCtx' = TRUE
    /\ UNCHANGED <<rcvPc, rcvTotal, rcvErr, rcvReads, rcvBinary, rcvPrinted,
                   rcvFailed>>
    /\ UNCHANGED readerVars
    /\ UNCHANGED <<serverVars, clientVars, senderVars, upgradeVars,
                   rateVars>>

ReceiverNext ==
    \/ \E ok \in BOOLEAN : receiverStart(ok)
    \/ receiverDone
    \/ \E kind \in Kinds, n \in Lengths, res \in Reads :
          receiverRead(kind, n, res)
    \/ receiverCancel

(***************************************************************************)
(* Part V: the ndt7 connection setup, upgrade and dial, and the handlers of *)
(* /ndt/v7/download and /ndt/v7/upload.                                     *)
(***************************************************************************)
wsProto == "net.measurementlab.ndt.v7"

\* values of the Sec-WebSocket-Protocol header a request may carry
Protocols ==
    {"", wsProto, "NET.MEASUREMENTLAB.NDT.V7", "net.measurementlab.ndt.v8",
     "net.measurementlab.ndt.v7, mqtt"}

Paths == {"download", "upload"}

\* statuses websocket.Upgrader answers a malformed handshake with
UpgraderErrors == {StatusBadRequest, 403, 405, 500}

UpgradeInit ==
    /\ upPc = "idle"
    /\ upPath = "download"
    /\ upProto = ""
    /\ upShake = FALSE
    /\ upDialed = FALSE
    /\ upStatus = 0
    /\ upRan = "none"
    /\ upLog = << >>

Handled ==
    [path |-> upPath, proto |-> upProto, dialed |-> upDialed,
     status |-> upStatus, ran |-> upRan]

\* the next request reaches its handler
Arrive(path, proto, shake, dialed) ==
    /\ upPath' = path
    /\ upProto' = proto
    /\ upShake' = shake
    /\ upDialed' = dialed
    /\ upStatus' = 0
    /\ upRan' = "none"
    /\ upPc' = "upgrade"
    /\ upLog' = IF upPc = "returned" THEN Append(upLog, Handled) ELSE upLog

\* dial: websocket.Dialer.DialContext with the Sec-WebSocket-Protocol header
\* set to wsProto
dial(path) ==
    /\ upPc \in {"idle", "returned"}
    /\ Len(upLog) < MaxConns
    /\ Arrive(path, wsProto, TRUE, TRUE)
    /\ UNCHANGED readerVars
    /\ UNCHANGED <<serverVars, clientVars, senderVars, receiverVars,
                   rateVars>>

\* a request of any other client
request(path, proto, shake) ==
    /\ upPc \in {"idle", "returned"}
    /\ Len(upLog) < MaxConns
    /\ Arrive(path, proto, shake, FALSE)
    /\ UNCHANGED readerVars
    /\ UNCHANGED <<serverVars, clientVars, senderVars, receiverVars,
                   rateVars>>

\* an upgrade that accepts every sub-protocol
protocolOkAny(proto) == TRUE

\* req.Header.Get("Sec-WebSocket-Protocol") != wsProto, negated
protocolOk(proto) == proto = wsProto

\* the handler up to the return of upgrade
upgrade(status) ==
    /\ upPc = "upgrade"
    /\ IF ~protocolOk(upProto)
       THEN upStatus' = StatusBadRequest /\ upPc' = "returned"
       ELSE IF upShake
            THEN upStatus' = 101 /\ upPc' = "run"
            ELSE upStatus' = status /\ upPc' = "returned"
    /\ UNCHANGED <<upPath, upProto, upShake, upDialed, upRan, upLog>>
    /\ UNCHANGED readerVars
    /\ UNCHANGED <<serverVars, clientVars, senderVars, receiverVars,
                   rateVars>>

\* the handler after upgrade returned a connection: sender for
\* /ndt/v7/download, receiver for /ndt/v7/upload
serve ==
    /\ upPc = "run"
    /\ upRan' = IF upPath = "download" THEN "sender" ELSE "receiver"
    /\ upPc' = "returned"
    /\ UNCHANGED <<upPath, upProto, upShake, upDialed, upStatus, upLog>>
    /\ UNCHANGED readerVars
    /\ UNCHANGED <<serverVars, clientVars, senderVars, receiverVars,
                   rateVars>>

UpgradeNext ==
    \/ \E path \in Paths : dial(path)
    \/ \E path \in Paths, proto \in Protocols, shake \in BOOLEAN :
          request(path, proto, shake)
    \/ \E status \in UpgraderErrors : upgrade(status)
    \/ serve

(***************************************************************************)
(* Part VI: the rates.  A float64 is a number, kept as a fraction in lowest *)
(* terms, or +Inf, or NaN.  Times are in milliseconds, rates in bit/s.      *)
(***************************************************************************)
RECURSIVE GCD(_, _)
GCD(a, b) == IF b = 0 THEN a ELSE GCD(b, a % b)

Abs(x) == IF x < 0 THEN 0 - x ELSE x

Number(n, d) ==
    [kind |-> "number", num |-> n \div GCD(Abs(n), Abs(d)),
                        den |-> d \div GCD(Abs(n), Abs(d))]

\* the zero value of a float64
Zero == Number(0, 1)
Inf == [kind |-> "+Inf", num |-> 1, den |-> 0]
NaN == [kind |-> "NaN", num |-> 0, den |-> 0]

\* Duration.Seconds() followed by the float64 division bits / seconds
PerSecond(bits, ms) ==
    IF ms = 0
    THEN IF bits = 0 THEN NaN ELSE Inf
    ELSE IF ms > 0 THEN Number(bits * 1000, ms)
                   ELSE Number(0 - bits * 1000, 0 - ms)

\* a rate computed whatever the elapsed time
maybeSpeedUnguarded(count, ms) == PerSecond(count * 8, ms)

\* slogging.maybeSpeed, where ms is until.Sub(since)
maybeSpeed(count, ms) ==
    IF ms > 0 THEN PerSecond(count * 8, ms) ELSE Zero

\* the speed emitAppInfo logs, where ms is time.Since(start)
emitAppInfo(total, ms) ==
    IF ms > 0 THEN PerSecond(total * 8, ms) ELSE Zero

\* the speed handlePutChunk logs, where ms is time.Since(t0)
putChunkSpeed(read, ms) == PerSecond(read * 8, ms)

\* NDT8Client.#speed of the JavaScript client
jsSpeed(bytes, elapsedMs) ==
    IF elapsedMs > 0 THEN PerSecond(bytes * 8, elapsedMs) ELSE Zero

\* the functions that compute a rate; only maybeSpeed gets its two times
\* from its caller, the others read a clock that does not go back
Sites == {"maybeSpeed", "emitAppInfo", "handlePutChunk", "speed"}

Counts == 0..MaxCount
Elapsed(site) ==
    IF site \in {"maybeSpeed", "speed"} THEN (0 - MaxElapsed)..MaxElapsed
                                        ELSE 0..MaxElapsed

RateIdle ==
    /\ ratePc = "done"
    /\ rateSite = "maybeSpeed"
    /\ rateCount = 0
    /\ rateElapsed = 0
    /\ rateSpeed = Zero

RateInit ==
    /\ ratePc = "call"
    /\ rateSite \in Sites
    /\ rateCount \in Counts
    /\ rateElapsed \in Elapsed(rateSite)
    /\ rateSpeed = Zero

\* the result of the computation is kept
Computed(speed) ==
    /\ ratePc = "call"
    /\ rateSpeed' = speed
    /\ ratePc' = "done"
    /\ UNCHANGED <<rateSite, rateCount, rateElapsed>>
    /\ UNCHANGED readerVars
    /\ UNCHANGED <<serverVars, clientVars, senderVars, receiverVars,
                   upgradeVars>>

\* ReadCloser.emit calls maybeSpeed(r.tot, r.t0, now)
callMaybeSpeed ==
    /\ rateSite = "maybeSpeed"
    /\ Computed(maybeSpeed(rateCount, rateElapsed))

\* sender and receiver call emitAppInfo(start, total, testname)
callEmitAppInfo ==
    /\ rateSite = "emitAppInfo"
    /\ Computed(emitAppInfo(rateCount, rateElapsed))

\* handlePutChunk after the body is read
callPutChunkSpeed ==
    /\ rateSite = "handlePutChunk"
    /\ Computed(putChunkSpeed(rateCount, rateElapsed))

\* the JavaScript client reports progress and the end of a chunk
callJsSpeed ==
    /\ rateSite = "speed"
    /\ Computed(jsSpeed(rateCount, rateElapsed))

RateNext ==
    \/ callMaybeSpeed
    \/ callEmitAppInfo
    \/ callPutChunkSpeed
    \/ callJsSpeed

(***************************************************************************)
(* Properties of the sender.                                                *)
(***************************************************************************)
C13State ==
    sndPc \in {"loop", "write"} =>
        /\ \E k \in 0..10 : sndSize = 1024 * 2 ^ k
        /\ sndSize <= 1048576

C13Step ==
    /\ sndPc = "start" /\ sndPc' = "loop" => sndSize' = 1024
    /\ sndPc \in {"loop", "write"} =>
          sndSize' = sndSize \/ sndSize' = 2 * sndSize

\* C13: the message size of the sender is 1024 when the loop starts, every
\* change of it is an exact doubling, so it is 1024 * 2^k and never
\* decreases, and it is never larger than 1 MiB.
C13_SizeDoubles == []C13State /\ [][C13Step]_vars

\* the size has reached 1 MiB and messages of that size have been sent
C13_Witness ==
    /\ sndPc = "loop"
    /\ sndSize = maxScaledMessageSize
    /\ sndTotal > 32 * maxScaledMessageSize
    /\ sndSent = MaxSends

\* C14: whenever the sender sets a new size in its loop, the new size is at
\* most the total sent so far divided by 16.
C14_NewSizeWithinSixteenth ==
    [][sndPc = "write" /\ sndSize' # sndSize => sndSize' <= sndTotal' \div 16]_vars

C14State ==
    sndPc \in {"loop", "write"} /\ sndSize > 1024 => sndSize < sndTotal \div 8

C14Step ==
    sndPc = "write" /\ sndSize' # sndSize =>
        /\ sndSize < sndTotal' \div 16
        /\ sndSize' < sndTotal' \div 8

\* C14 as the code has it: the sender sets a new size only when the size it
\* replaces is less than the total sent so far divided by 16; the new size,
\* twice the old one, is less than the total divided by 8, and stays so.
C14_OldSizeBelowSixteenth == []C14State /\ [][C14Step]_vars

\* the first doubling: 17 messages of 1024 bytes are sent, the size is now
\* 2048 and one sixteenth of the total is 1088
C14_Witness ==
    /\ sndPc = "loop"
    /\ sndSize = 2048
    /\ sndTotal = 17408
    /\ sndSize > sndTotal \div 16

\* a message is written
Sent == sndSent' = sndSent + 1

\* C34 as stated: the sender writes no message once its context is
\* cancelled and none once 10 s have passed since its start, and it
\* eventually returns.
C34_NoMessageAfterEnd ==
    /\ [][Sent => ~sndCtx /\ sndClock < 10000]_vars
    /\ <>(sndPc = "returned")

C34Step ==
    /\ Sent => sndClock < 10000
    /\ Sent /\ sndCtx => sndPc = "write" /\ sndPc' = "loop"
    /\ sndPc = "loop" /\ sndCtx => sndPc' \in {"loop", "returned"} /\ ~Sent
    /\ sndPc = "returned" => sndPc' = "returned" /\ ~Sent

\* C34 as the code has it: the sender begins no iteration of its loop once
\* its context is cancelled, so the only message it can write after the
\* cancellation is the one of the iteration that had passed the loop
\* condition before; it writes no message once 10 s have passed since its
\* start; and it eventually returns.
C34_NoIterationAfterEnd ==
    /\ [][C34Step]_vars
    /\ <>(sndPc = "returned")

\* the sender wrote messages until the write deadline came, and returned
\* the error of the write that followed
C34_Witness ==
    /\ sndPc = "returned" /\ sndErr = "err"
    /\ ~sndCtx /\ sndClock >= 10000
    /\ sndSent = MaxSends

(***************************************************************************)
(* The scaling step as a function of size and total: the sender is put in   *)
(* its loop with a size and a total drawn from bounded sets, which include   *)
(* sizes the sender itself never uses.                                      *)
(***************************************************************************)
GateSizes == {128} \cup {minMessageSize * 2 ^ k : k \in 0..MaxGateShift}

\* totals after the send, around sixteen times the size
GateTotals(sz) == {1000} \cup {16 * sz + d : d \in -1..17}

GateInit ==
    /\ sndPc = "loop"
    /\ sndSize \in GateSizes
    /\ sndTotal \in {t - sndSize : t \in {u \in GateTotals(sndSize) : u >= sndSize}}
    /\ sndCtx = FALSE
    /\ sndErr = "none"
    /\ sndSent = 0
    /\ sndClock = 0

C15Step ==
    sndPc = "write" /\ sndSent' = sndSent + 1 =>
        /\ sndSize' = 2 * sndSize <=>
               sndSize < 1048576 /\ sndSize < sndTotal' \div 16
        /\ sndSize' \in {sndSize, 2 * sndSize}
        /\ sndSize = 128 /\ sndTotal' = 1000 => sndSize' = 128
        /\ sndSize = sndTotal' \div 16 => sndSize' = sndSize

\* C15: after a successful send the sender doubles its size if and only if
\* the size is less than 1 MiB and less than the total, the message just
\* sent included, divided by 16 (integer division); otherwise the size
\* stays.  With size 128 and total 1000 the size stays, and so it does when
\* the size is equal to the total divided by 16.
C15_DoubleIffBelowBoth == [][C15Step]_vars

\* a message of 128 bytes brought the total to 1000 and the size stayed
C15_Witness ==
    /\ sndPc = "loop"
    /\ sndSize = 128
    /\ sndTotal = 1000
    /\ sndSent = 1

(***************************************************************************)
(* Properties of the receiver.                                              *)
(***************************************************************************)
\* C16: Text messages are printed and not counted: the total of the receiver
\* is the sum of the lengths of the Binary messages it has read.
C16_TextNotCounted == rcvTotal = rcvBinary

C17State == rcvFailed => rcvPc = "returned" /\ rcvErr = "err"

C17Step ==
    /\ ~rcvFailed /\ rcvFailed' => rcvTotal' = rcvTotal
    /\ rcvFailed => rcvReads' = rcvReads /\ rcvTotal' = rcvTotal

\* C17: a failed read, of conn.NextReader or of the payload, ends the loop:
\* the receiver returns the error, asks for no further message and adds
\* nothing more to its total, neither at the failed read nor later.
C17_ReadFailureReturns == []C17State /\ [][C17Step]_vars

\* a read failed after messages had been counted, while the context was
\* not done and more messages could have been read
C17_Witness ==
    /\ rcvFailed /\ rcvPc = "returned" /\ rcvErr = "err"
    /\ rcvTotal > 0
    /\ rcvReads < MaxReads
    /\ ~rcvCtx

(***************************************************************************)
(* Properties of the connection setup.                                      *)
(***************************************************************************)
C18Entry(e) ==
    /\ e.status = 101 => e.proto = "net.measurementlab.ndt.v7"
    /\ e.ran # "none" => e.status = 101
    /\ e.proto # "net.measurementlab.ndt.v7" /\ e.status # 0 =>
           e.status = 400 /\ e.ran = "none"
    /\ e.dialed => e.proto = "net.measurementlab.ndt.v7"

\* C18: a request is upgraded, and sender or receiver run for it, only when
\* its Sec-WebSocket-Protocol header is exactly net.measurementlab.ndt.v7;
\* a request with another value or none is answered 400 and neither sender
\* nor receiver runs; a request made by dial always carries that value.
C18_UpgradeOnlyWithProtocol ==
    /\ C18Entry(Handled)
    /\ \A i \in 1..Len(upLog) : C18Entry(upLog[i])
    /\ upPc = "run" => upProto = "net.measurementlab.ndt.v7"
    /\ upPc = "returned" => upStatus # 0

\* a request without the header has been answered 400, and after it a
\* request made by dial has been upgraded and the sender has run
C18_Witness ==
    /\ Len(upLog) = 1
    /\ upLog[1].proto = "" /\ upLog[1].status = 400 /\ upLog[1].ran = "none"
    /\ upPc = "returned" /\ upDialed /\ upStatus = 101 /\ upRan = "sender"

(***************************************************************************)
(* Properties of the rates.                                                 *)
(***************************************************************************)
\* a <= b for two float64 that are numbers
LessEq(a, b) == a.num * b.den <= b.num * a.den

\* the rate the function of a site gives
RateOf(site, count, ms) ==
    IF site = "maybeSpeed" THEN maybeSpeed(count, ms)
    ELSE emitAppInfo(count, ms)

\* C19: for maybeSpeed and for emitAppInfo, the rate of 0 bytes is 0
\* whatever the elapsed time, the rate of any bytes over an elapsed time of 0
\* is 0, the rate over a positive elapsed time is bytes * 8 divided by the
\* seconds elapsed, and for a fixed positive elapsed time fewer bytes never
\* give a larger rate.
C19_RateFunction ==
    ratePc = "done" /\ rateSite \in {"maybeSpeed", "emitAppInfo"} =>
        /\ rateCount = 0 => rateSpeed = Zero
        /\ rateElapsed = 0 => rateSpeed = Zero
        /\ rateElapsed > 0 =>
               /\ rateSpeed.kind = "number" /\ rateSpeed.den > 0
               /\ rateSpeed.num * rateElapsed = rateSpeed.den * rateCount * 8000
               /\ \A c \in 0..rateCount :
                      LessEq(RateOf(rateSite, c, rateElapsed), rateSpeed)

\* maybeSpeed has given 0 for some bytes over no time at all
C19_Witness ==
    /\ ratePc = "done" /\ rateSite = "maybeSpeed"
    /\ rateCount > 0 /\ rateElapsed = 0
    /\ rateSpeed = Zero

\* C20: every rate computed is 0 when the elapsed time is zero or negative,
\* the one handlePutChunk computes included.
C20_ZeroWhenNotPositive ==
    ratePc = "done" /\ rateElapsed <= 0 => rateSpeed = Zero

(***************************************************************************)
(* Part VII.  Chunk requests of realistic sizes, served one at a time.      *)
(***************************************************************************)
Mib == <<"1", "0", "4", "8", "5", "7", "6">>

\* 256 MiB + 1: just above the largest size the client asks for
AboveMax == <<"2", "6", "8", "4", "3", "5", "4", "5", "7">>

\* 2 * 10^9
Billions == <<"2", "0", "0", "0", "0", "0", "0", "0", "0", "0">>

\* 2^63: the least value above the 64-bit signed integers
Int64Max1 ==
    <<"9", "2", "2", "3", "3", "7", "2", "0", "3", "6", "8", "5", "4", "7",
      "7", "5", "8", "0", "8">>

\* {size} path values: those of PathSizes, the client's first size, 1 MiB,
\* and malformed, signed and zero-padded variants
ChunkPaths ==
    PathSizes \cup { <<"x">>, <<"-", "1">>, <<"+", "1">>, <<"3", "2">>, Mib,
                     <<"-", "3", "2">>, <<"0", "3", "2">>, <<"3", "2", "x">>,
                     <<"3", ".", "2">>, <<"3", "3">>, AboveMax, Billions,
                     Int64Max1 }

\* numbers of bytes a connection carries before it ends
ChunkLengths ==
    {0, 1, 2, 31, 32, 33, 34, 1048575, 1048576, 1048577,
     268435457, 268435458, 2000000000, 2000000001}

ChunkNext ==
    \/ \E kind \in Kind \ {"probe"}, sid \in Ids, path \in ChunkPaths :
          req = EmptyBag /\ Lock(kind, sid, path)
    \/ \E h \in Handlers : handleCreateSession(h)
    \/ \E h \in Handlers : handleDeleteSession(h)
    \/ \E h \in Handlers : handleGetChunk(h)
    \/ \E h \in Handlers, written \in ChunkLengths :
          handleGetChunkBody(h, written)
    \/ \E h \in Handlers : handlePutChunk(h)
    \/ \E h \in Handlers, avail \in ChunkLengths :
          handlePutChunkBody(h, avail)
    \/ \E h \in Handlers : Complete(h)

\* the positive integer a path value denotes in decimal, 0 when it denotes
\* none
SizeOf(path) ==
    CASE path \in { <<"1">>, <<"+", "1">> } -> 1
      [] path \in { <<"3", "2">>, <<"0", "3", "2">> } -> 32
      [] path = Mib -> 1048576
      [] path = <<"3", "3">> -> 33
      [] path = AboveMax -> 268435457
      [] path = Billions -> 2000000000
      [] OTHER -> 0

\* the Content-Length value that declares a length
Declared(length) ==
    CASE length = 1 -> <<"1">>
      [] length = 32 -> <<"3", "2">>
      [] length = 1048576 -> Mib
      [] length = 33 -> <<"3", "3">>
      [] length = 268435457 -> AboveMax
      [] length = 2000000000 -> Billions
      [] OTHER -> << >>

\* this step is handler h ending the transfer of its body and becoming h2
Transfers(h, h2) ==
    /\ h \in Handlers /\ h.pc = "body"
    /\ h2.pc = "done"
    /\ req' = Replace(h, h2)

C21Step ==
    \A h \in Handlers, h2 \in BagToSet(req') :
        /\ h.kind = "get" /\ Checks(h, h2) /\ Present(h.sid) =>
              IF SizeOf(h.path) > 0
              THEN /\ h2.pc = "body" /\ h2.status = StatusOK
                   /\ h2.count = SizeOf(h.path)
                   /\ h2.clen = Declared(SizeOf(h.path))
              ELSE /\ h2.pc = "done" /\ h2.status = StatusBadRequest
                   /\ h2.n = 0
        /\ h.kind = "get" /\ Transfers(h, h2) =>
              /\ h2.status = StatusOK /\ h2.clen = h.clen
              /\ h2.n <= h.count
              /\ ~h2.werr => h2.n = h.count

\* C21: for a session id in the registry, a GET chunk whose size denotes a
\* positive integer is answered 200 with Content-Length size and never more
\* than size body bytes, exactly size when no write to the connection fails
\* (32 gives 32 bytes); a malformed, zero or negative size is answered 400
\* and no body byte is sent.
C21_GetChunk == [][C21Step]_vars

C21_Witness ==
    \E h \in Handlers :
        /\ h.kind = "get" /\ h.pc = "done" /\ h.status = StatusOK
        /\ h.clen = <<"3", "2">> /\ h.n = 32 /\ ~h.werr

C22Step ==
    \A h \in Handlers, h2 \in BagToSet(req') :
        /\ h.kind = "put" /\ Checks(h, h2) /\ Present(h.sid) =>
              IF SizeOf(h.path) > 0
              THEN h2.pc = "body" /\ h2.count = SizeOf(h.path)
              ELSE /\ h2.pc = "done" /\ h2.status = StatusBadRequest
                   /\ h2.n = 0 /\ h2.avail = 0
        /\ h.kind = "put" /\ Transfers(h, h2) /\ h2.avail = h.count =>
              h2.status = StatusNoContent /\ h2.n = h.count

\* C22: for a session id in the registry, a PUT chunk whose size denotes a
\* positive integer and whose body has exactly size bytes is answered 204
\* with size bytes counted as received (1048576 for 1 MiB); a malformed, zero
\* or negative size is answered 400 and nothing is read of the body.
C22_PutChunk == [][C22Step]_vars

C22_Witness ==
    \E h \in Handlers :
        /\ h.kind = "put" /\ h.pc = "done" /\ h.status = StatusNoContent
        /\ h.count = 1048576 /\ h.avail = 1048576 /\ h.n = 1048576

C36Step ==
    \A h \in Handlers, h2 \in BagToSet(req') :
        h.kind \in {"get", "put"} /\ Checks(h, h2) =>
            /\ ~Present(h.sid) => h2.status = StatusNotFound /\ h2.pc = "done"
            /\ h2.status = StatusBadRequest =>
                  Present(h.sid) /\ SizeOf(h.path) = 0

\* C36: a GET or PUT chunk request with a session id that is not in the
\* registry is answered 404 whatever its size, well formed or not; 400 is
\* answered only when the id is in the registry and the size denotes no
\* positive integer.
C36_SessionBeforeSize == [][C36Step]_vars

\* the PUT handler has answered 404 to an id the server never issued
C36_Witness ==
    \E h \in Handlers :
        /\ h.kind = "put" /\ h.pc = "done" /\ h.status = StatusNotFound
        /\ h.sid \notin Range(issued)

C37Step ==
    \A h \in Handlers, h2 \in BagToSet(req') :
        /\ h.kind \in {"get", "put"} /\ Checks(h, h2) /\ Present(h.sid)
           /\ SizeOf(h.path) > 0 =>
              h2.pc = "body" /\ h2.count = SizeOf(h.path)
        /\ Transfers(h, h2) /\ h.kind = "get" /\ ~h2.werr =>
              h2.status = StatusOK /\ h2.n = h.count
        /\ Transfers(h, h2) /\ h.kind = "put" /\ h2.avail = h.count =>
              h2.status = StatusNoContent /\ h2.n = h.count

\* C37: for a session id in the registry, GET and PUT chunk accept and serve
\* every size that denotes a positive integer, whatever its magnitude and
\* shape: 33, 256 MiB + 1 and 2 * 10^9 are served like 32 and 1 MiB.
C37_NoUpperBound == [][C37Step]_vars

\* a GET of 2 * 10^9 bytes was served in full, and so was a PUT of
\* 256 MiB + 1 bytes
C37State(kind, count) ==
    \E h \in Handlers :
        /\ h.kind = kind /\ h.pc = "done" /\ h.count = count /\ h.n = count
        /\ h.status \in {StatusOK, StatusNoContent}

C37_Witness == C37State("get", 2000000000) \/ C37State("put", 268435457)

C38Step ==
    \A h \in Handlers, h2 \in BagToSet(req') :
        h.kind = "put" /\ Transfers(h, h2) =>
            /\ h2.status = StatusNoContent
            /\ h2.n <= h.count /\ h2.n <= h2.avail
            /\ h2.avail < h.count => h2.n = h2.avail

\* C38: the PUT chunk handler, once it has accepted the request, answers 204
\* whatever number of body bytes reaches it; it counts no more than size
\* bytes and no more than the body had, and a body that ends before size
\* bytes, by its end or by a read error, is reported with its own length.
C38_PutShortBody == [][C38Step]_vars

\* a PUT of size 32 whose body ended after 31 bytes was answered 204
C38_Witness ==
    \E h \in Handlers :
        /\ h.kind = "put" /\ h.pc = "done" /\ h.status = StatusNoContent
        /\ h.count = 32 /\ h.avail = 31 /\ h.n = 31

C35Step ==
    \A h \in Handlers, h2 \in BagToSet(req') :
        /\ Transfers(h, h2) =>
              /\ h2.status = IF h.kind = "get" THEN StatusOK
                             ELSE StatusNoContent
              /\ h.kind = "get" /\ ~h2.werr => h2.n = h.count
        /\ h.kind = "delete" /\ Checks(h, h2) =>
              \A g \in Handlers : g.pc = "body" => g \in BagToSet(req')
        /\ ChunkOrProbe(h) /\ Checks(h, h2) /\ h.sid \in deleted =>
              h2.status = StatusNotFound /\ h2.pc = "done"

\* C35: a chunk transfer that passed its session check runs to its end with
\* its success status whether or not the session is still in the registry;
\* the delete of a session leaves the transfers in flight as they are; and a
\* chunk or probe request checked after the delete is answered 404.
C35_DeleteDuringTransfer == [][C35Step]_vars

\* a session was deleted while a GET chunk of it is in flight, and a later
\* PUT chunk of the same session was answered 404
C35_Witness ==
    \E h \in Handlers, g \in Handlers :
        /\ h.kind = "get" /\ h.pc = "body" /\ h.sid \in deleted
        /\ g.kind = "put" /\ g.pc = "done" /\ g.sid = h.sid
        /\ g.status = StatusNotFound

\* the request of handler h carries an unknown session id, or a size that
\* denotes no positive integer
InputError(h) ==
    \/ h.kind # "create" /\ ~Present(h.sid)
    \/ h.kind \in {"get", "put"} /\ SizeOf(h.path) = 0

C23Step ==
    \A h \in Handlers, h2 \in BagToSet(req') :
        Checks(h, h2) =>
            /\ InputError(h) =>
                  h2.pc = "done"
                  /\ h2.status \in {StatusBadRequest, StatusNotFound}
            /\ h2.status \in {StatusBadRequest, StatusNotFound} =>
                  /\ sessions' = sessions /\ mu' = Free
                  /\ UNCHANGED <<lastV7, clock, issued, deleted>>

\* C23: a request with an unknown session id or with a malformed, zero or
\* negative size is answered 404 or 400, and the step that rejects it leaves
\* the registry, the id generator and the clock as they were, the mutex free
\* and every other handler untouched, so that later requests are served as if
\* it had not been made.
C23_RejectionsLeaveNoTrace == [][C23Step]_vars

C23_Witness ==
    \E h \in Handlers, g \in Handlers :
        /\ h.pc = "done" /\ h.status = StatusBadRequest
        /\ g.pc = "done" /\ g.kind = "get" /\ g.status = StatusOK /\ g.n = 1
        /\ sessions # << >>

\* this step is the deleteSession(id) call of a handler
Deletes(id) ==
    \E h \in Handlers, h2 \in BagToSet(req') :
        h.kind = "delete" /\ h.sid = id /\ Checks(h, h2)

C28Step ==
    \A id \in DOMAIN sessions :
        \/ id \in DOMAIN sessions' /\ sessions'[id] = sessions[id]
        \/ Deletes(id)

\* C28: an entry of the registry stays in it with its creation time unchanged
\* across every step that is not a deleteSession call for its id; create,
\* exists, chunk and probe operations, whatever their id, leave existing
\* entries alone, and nothing removes an entry as time passes.
C28_EntriesStayUntilDeleted == [][C28Step]_vars

C28_Witness ==
    \E id \in DOMAIN sessions, h \in Handlers, g \in Handlers :
        /\ sessions[id] < clock
        /\ h.kind = "probe" /\ h.pc = "done" /\ h.sid = id
        /\ g.kind = "create" /\ g.pc = "done" /\ g.sid # id

\* the handlers inside a registry operation
Holders == {h \in Handlers : h.pc = "locked"}

C29State ==
    /\ mu = Held <=> Holders # {}
    /\ \A h \in Holders : CopiesIn(h, req) = 1 /\ Holders = {h}

C29Step ==
    /\ sessions' # sessions => mu = Held /\ mu' = Free
    /\ \A h \in Handlers, h2 \in BagToSet(req') :
          /\ Checks(h, h2) => mu = Held /\ mu' = Free /\ Holders = {h}
          /\ Transfers(h, h2) => h \notin Holders /\ mu' = mu

\* C29: the session map is read and written only by the one handler that
\* holds the registry mutex, so registry operations never overlap; the mutex
\* is released when the map operation ends, and a handler that transfers a
\* body does not hold it.
C29_RegistryUnderMutex == []C29State /\ [][C29Step]_vars

C29_Witness ==
    \E h \in Handlers, g \in Handlers :
        /\ h.pc = "locked" /\ h.kind = "delete" /\ Present(h.sid)
        /\ g.pc = "body" /\ g.sid = h.sid

(***************************************************************************)
(* Part VIII.  Further properties of the ndt8 client.                        *)
(***************************************************************************)
\* C24: every probe that issued its request ends with a record emitted, also
\* when the request fails with a transport error: the step in which
\* client.Do returns does not add a period without a record.
C24_EveryProbeRecorded ==
    [][ppc = "do" /\ ppc' # "do" /\ unsampled < MaxUnsampled
          => unsampled' = unsampled]_vars

C26State ==
    parentDone /\ Running =>
        /\ ctxDone
        /\ sinceDone > 0 => ppc = "exited"

C26Step ==
    parentDone' /\ Running =>
        /\ tpc = "loop" => tpc' \in {"loop", "cancel"}
        /\ tpc # "do" => tpc' # "do"
        /\ ppc # "do" => ppc' # "do"

\* C26: when the caller cancels the context given to runWithProbes, the
\* derived context is done at once; from then on the loop check ends the
\* loop, no chunk request and no probe request is put in flight, and
\* runProbes has returned before the next tick.
C26_ParentCancelPropagates == []C26State /\ [][C26Step]_vars

\* the caller has cancelled before the deadline, with a chunk transfer in
\* flight and runProbes already returned
C26_Witness ==
    /\ parentDone /\ tpc = "do" /\ ppc = "exited"
    /\ elapsed < timeBudget /\ elapsed > 0 /\ Len(sizes) > 1

\* chunk transfers of this direction that have returned: one per doubling of
\* the loop variable
Returned == CHOOSE k \in 0..25 : size = initialChunkSize * 2 ^ k

\* chunk transfers of this direction that were started and have not returned
InFlight == Len(sizes) - Returned

C30State ==
    /\ InFlight \in {0, 1}
    /\ InFlight = 1 <=> tpc \in {"do", "body"}

C30Step ==
    /\ Len(sizes') > Len(sizes) /\ Len(sizes) > 0 =>
          InFlight = 0 /\ tpc = "call"
    /\ ppc' = "do" /\ ppc # "do" => ppc = "probe"
    /\ ppc = "do" => ppc' \in {"do", "select"}

\* C30: within a direction a chunk transfer is started only when every
\* earlier one has returned, so at most one is in flight; a probe request is
\* started only by runProbes between two waits, so at most one is in flight;
\* a probe and a chunk transfer can be in flight together.
C30_OneTransferOneProbe == []C30State /\ [][C30Step]_vars

\* the third chunk transfer and a probe are in flight together
C30_Witness ==
    /\ tpc = "do" /\ ppc = "do" /\ Len(sizes) = 3 /\ ~ctxDone

\* C25: runWithProbes, once called, returns: the transfer loop has stopped,
\* runProbes has returned, and measureMain goes on to the next step, also
\* when the direction was ended by the deadline.
C25_DirectionReturns ==
    /\ (Running /\ mpc = "download") ~>
          (~Running /\ ppc = "exited" /\ mpc = "upload")
    /\ (Running /\ mpc = "upload") ~>
          (~Running /\ ppc = "exited" /\ mpc = "delete")

\* the download direction has returned after running into the deadline with
\* a chunk in flight, and the upload direction is next
C25_Witness ==
    /\ ~Running /\ ppc = "exited" /\ mpc = "upload"
    /\ ctxDone /\ ~parentDone /\ elapsed >= timeBudget
    /\ Len(sizes) < 24

\* ticks of this direction that may still lead to a record: the one buffered
\* in ticker.C and the one whose probe is under way
Pending ==
    (IF ppc \in {"select", "probe", "do"} /\ tick THEN 1 ELSE 0)
    + (IF ppc \in {"probe", "do"} THEN 1 ELSE 0)

\* probe records emitted in this direction, exact while unsampled is below
\* MaxUnsampled and an upper bound after that
ProbeSamples == elapsed \div probeInterval - unsampled - Pending

\* the direction has run until the deadline, and runProbes has returned
FullBudget ==
    /\ tpc # "none" /\ ppc = "exited" /\ ~parentDone
    /\ ctxDone /\ elapsed = timeBudget /\ sinceDone = 0

\* C27: a direction that runs for the full time budget of 10 s emits between
\* 39 and 41 probe records.
C27_ProbeSamples == FullBudget => ProbeSamples \in 39..41

\* the steps of the transfer loop and of runProbes that wait for nothing
\* inside the process, and the ends of the requests in flight
C31State ==
    /\ tpc = "loop" => ENABLED loopCheck
    /\ tpc = "call" => ENABLED doRequest
    /\ tpc = "do" => ENABLED doError /\ ENABLED doResponse(StatusOK)
    /\ tpc = "body" => ENABLED doBody(TRUE)
    /\ tpc = "cancel" => ENABLED cancel
    /\ tpc = "wait" => (ENABLED wait <=> ppc = "exited")
    /\ ppc = "start" => ENABLED newTicker
    /\ ppc = "select" => (ENABLED selectTick <=> tick)
    /\ ppc = "select" => (ENABLED selectDone <=> ctxDone)
    /\ ppc = "probe" => ENABLED probeRequest
    /\ ppc = "do" => ENABLED probeError /\ ENABLED probeResponse(StatusOK)

\* C31: the transfer loop and the probe scheduler never wait for each
\* other, except at the final join.  Wherever the transfer loop is, its next
\* step can be taken whatever runProbes is doing, a probe in flight
\* included, and a request in flight can end; the next step of runProbes
\* can be taken whatever the transfer loop is doing, a tick being all that
\* the select needs to issue a probe; wg.Wait() alone needs runProbes to
\* have returned.
C31_IndependentProgress == C31State

\* a chunk request and a probe request are both in flight after earlier
\* chunks have been transferred, and the next tick is already pending
C31_Witness ==
    /\ tpc = "do" /\ ppc = "do" /\ tick
    /\ Len(sizes) > 2 /\ ~ctxDone

(***************************************************************************)
(* Part IX.  The download chunks of one direction.  runWithProbes calls     *)
(* doDownload once per size; doDownload wraps the body of each response in  *)
(* a new slogging.ReadCloser, io.CopyBuffer calls its Read until one        *)
(* returns an error (io.EOF included), and the deferred Close runs last.    *)
(* Every step reads the clock after dt more milliseconds have passed.       *)
(***************************************************************************)
\* const interval = 250 * time.Millisecond
interval == 250

\* byte counts one Read of the body returns
ReadCounts == {0, 1}

\* milliseconds between two readings of the clock
ReadDelays == {0, 125, 250}

NoRecord == [event |-> "", timeNow |-> 0, speed |-> Zero]

ReaderInit ==
    /\ rdPc = "loop"
    /\ rdNow = 0
    /\ rdChunk = 0
    /\ rdReads = 0
    /\ rdDelta = 0
    /\ rdT0 = 0
    /\ rdTot = 0
    /\ rdTprev = 0
    /\ rdOut = NoRecord
    /\ rdEmits = 0
    /\ rdSum = 0
    /\ rdBytes = 0
    /\ rdMark = 0

\* ReadCloser.emit: the record given to slog.Info
emit(event, now, tot, t0) ==
    [event |-> event, timeNow |-> now, speed |-> maybeSpeed(tot, now - t0)]

\* a gate that opens on every Read
dueAlways(now, tprev) == TRUE

\* now.Sub(r.tprev) >= interval
due(now, tprev) == now - tprev >= interval

\* doDownload up to the wrapper: the request is sent, the response headers
\* arrive after dt ms, NewReadCloser(resp.Body) reads the clock
NewReadCloser(dt) ==
    /\ rdPc = "loop"
    /\ rdChunk < MaxChunks
    /\ rdPc' = "read"
    /\ rdNow' = rdNow + dt
    /\ rdChunk' = rdChunk + 1
    /\ rdReads' = 0
    /\ rdTprev' = rdNow'
    /\ rdDelta' = 0
    /\ rdT0' = rdNow'
    /\ rdTot' = 0
    /\ rdEmits' = 0
    /\ rdSum' = 0
    /\ rdMark' = rdNow'
    /\ UNCHANGED <<rdOut, rdBytes>>
    /\ UNCHANGED <<serverVars, clientVars, senderVars, receiverVars,
                   upgradeVars, rateVars>>

\* doDownload when client.Do fails: slog.Warn and return, no wrapper
downloadFailed(dt) ==
    /\ rdPc = "loop"
    /\ rdChunk < MaxChunks
    /\ rdNow' = rdNow + dt
    /\ rdChunk' = rdChunk + 1
    /\ UNCHANGED <<rdPc, rdReads, rdDelta, rdT0, rdTot, rdTprev, rdOut,
                   rdEmits, rdSum, rdBytes, rdMark>>
    /\ UNCHANGED <<serverVars, clientVars, senderVars, receiverVars,
                   upgradeVars, rateVars>>

\* ReadCloser.Read, called by io.CopyBuffer: the body returns count bytes
\* and, when err, an error that ends the copy
Read(count, err, dt) ==
    /\ rdPc = "read"
    /\ rdReads < MaxChunkReads
    /\ err \/ rdReads + 1 < MaxChunkReads
    /\ rdNow' = rdNow + dt
    /\ rdReads' = rdReads + 1
    /\ rdTot' = rdTot + count
    /\ IF due(rdNow', rdTprev)
       THEN /\ rdOut' = emit("chunk read", rdNow', rdTot', rdT0)
            /\ rdEmits' = rdEmits + 1
            /\ rdDelta' = 0
            /\ rdTprev' = rdNow'
            /\ rdMark' = rdNow'
       ELSE /\ rdDelta' = rdDelta + count
            /\ UNCHANGED <<rdOut, rdEmits, rdTprev, rdMark>>
    /\ rdSum' = rdSum + count
    /\ rdBytes' = rdBytes + count
    /\ rdPc' = IF err THEN "close" ELSE "read"
    /\ UNCHANGED <<rdChunk, rdT0>>
    /\ UNCHANGED <<serverVars, clientVars, senderVars, receiverVars,
                   upgradeVars, rateVars>>

\* ReadCloser.Close, deferred by doDownload: one "chunk done" record, then
\* the body is closed and doDownload returns to the loop
Close(dt) ==
    /\ rdPc = "close"
    /\ rdNow' = rdNow + dt
    /\ rdOut' = emit("chunk done", rdNow', rdTot, rdT0)
    /\ rdEmits' = rdEmits + 1
    /\ rdPc' = "loop"
    /\ UNCHANGED <<rdChunk, rdReads, rdDelta, rdT0, rdTot, rdTprev, rdSum,
                   rdBytes, rdMark>>
    /\ UNCHANGED <<serverVars, clientVars, senderVars, receiverVars,
                   upgradeVars, rateVars>>

\* the loop of runWithProbes ends: the context is done or the sizes are
\* used up
downloadReturn ==
    /\ rdPc = "loop"
    /\ rdPc' = "returned"
    /\ UNCHANGED <<rdNow, rdChunk, rdReads, rdDelta, rdT0, rdTot, rdTprev,
                   rdOut, rdEmits, rdSum, rdBytes, rdMark>>
    /\ UNCHANGED <<serverVars, clientVars, senderVars, receiverVars,
                   upgradeVars, rateVars>>

ReaderNext ==
    \/ \E dt \in ReadDelays : NewReadCloser(dt)
    \/ \E dt \in ReadDelays : downloadFailed(dt)
    \/ \E count \in ReadCounts, err \in BOOLEAN, dt \in ReadDelays :
           Read(count, err, dt)
    \/ \E dt \in ReadDelays : Close(dt)
    \/ downloadReturn

C33State ==
    rdPc \in {"read", "close"} => rdTot = rdSum /\ rdTprev = rdMark

C33Step ==
    /\ rdPc = "read" =>
         IF rdNow' - rdMark >= 250
         THEN /\ rdEmits' = rdEmits + 1
              /\ rdOut'.event = "chunk read" /\ rdOut'.timeNow = rdNow'
              /\ rdMark' = rdNow'
         ELSE rdEmits' = rdEmits /\ rdOut' = rdOut /\ rdMark' = rdMark
    /\ rdPc = "close" =>
         /\ rdEmits' = rdEmits + 1
         /\ rdOut'.event = "chunk done" /\ rdOut'.timeNow = rdNow'
         /\ rdTot' = rdTot

\* C33: a Read of the wrapper emits a "chunk read" record exactly when 250 ms
\* or more have passed since the wrapper was built or since its previous
\* "chunk read" record, so two such records are at least 250 ms apart; tot
\* is at every moment the sum of the counts its Reads returned; a Close
\* emits exactly one "chunk done" record.
C33_SamplingGate == []C33State /\ [][C33Step]_vars

\* a wrapper has emitted two "chunk read" records and its "chunk done"
\* record, with Reads in between that emitted nothing
C33_Witness ==
    /\ rdPc = "loop" /\ rdOut.event = "chunk done"
    /\ rdEmits = 3 /\ rdReads = MaxChunkReads /\ rdTot = rdSum /\ rdTot > 2
    /\ rdChunk = MaxChunks

\* C32: every "chunk read" record of a download direction carries the rate
\* of all the bytes read in the direction over the time since the direction
\* started.
C32_SamplesSinceDirectionStart ==
    rdOut.event = "chunk read" =>
        rdOut.speed = maybeSpeed(rdBytes, rdOut.timeNow)

(***************************************************************************)
(* Specifications: the server under concurrent requests, and one client     *)
(* run against any server.                                                  *)
(***************************************************************************)
Init == ServerInit /\ ClientInit /\ SenderInit /\ ReceiverInit
        /\ UpgradeInit /\ RateIdle /\ ReaderInit

Next == ServerNext

Spec == Init /\ [][Next]_vars

NextClient == ClientNext

SpecClient == Init /\ [][NextClient]_vars

(***************************************************************************)
(* The client under fair scheduling, on a network without faults and with   *)
(* no cancellation by the caller: requests fail only because their context  *)
(* is done.  Every goroutine that can take a step takes one, a select with  *)
(* a ready case takes one of them, time passes, and a request in flight     *)
(* ends once its context is done.                                           *)
(***************************************************************************)
NextClientFair ==
    \/ \E ok \in BOOLEAN : clientCreateSession(ok)
    \/ runWithProbes
    \/ loopCheck
    \/ doRequest
    \/ ctxDone /\ doError
    \/ \E st \in {StatusOK, StatusNoContent} : doResponse(st)
    \/ \E ok \in BOOLEAN : (ok \/ ctxDone) /\ doBody(ok)
    \/ cancel
    \/ wait
    \/ clientDeleteSession
    \/ newTicker
    \/ selectDone
    \/ selectTick
    \/ probeRequest
    \/ ctxDone /\ probeError
    \/ \E st \in {StatusOK} : probeResponse(st)
    \/ advance

FairClient ==
    /\ WF_vars(runWithProbes) /\ WF_vars(loopCheck) /\ WF_vars(doRequest)
    /\ WF_vars(cancel) /\ WF_vars(wait)
    /\ WF_vars(newTicker) /\ WF_vars(selectDone \/ selectTick)
    /\ WF_vars(probeRequest)
    /\ WF_vars(advance)
    /\ WF_vars(ctxDone /\ (doError \/ \E st \in Statuses : doResponse(st)))
    /\ WF_vars(ctxDone /\ \E ok \in BOOLEAN : doBody(ok))
    /\ WF_vars(ctxDone /\ (probeError \/ \E st \in Statuses : probeResponse(st)))

SpecClientFair == Init /\ [][NextClientFair]_vars /\ FairClient

NextSender == SenderNext

SpecSender == Init /\ [][NextSender]_vars

(***************************************************************************)
(* The sender under fair scheduling: its goroutine takes the steps it can   *)
(* take, time passes, and a write that is pending when the write deadline   *)
(* comes returns an error.  A write may block until then, and the context   *)
(* may never be cancelled.                                                  *)
(***************************************************************************)
FairSender ==
    /\ WF_vars(\E ok \in BOOLEAN : senderStart(ok))
    /\ WF_vars(senderDone) /\ WF_vars(senderCheck)
    /\ WF_vars(senderTime)
    /\ WF_vars(pastDeadline(sndClock) /\ senderSend(FALSE))

SpecSenderFair == Init /\ [][NextSender]_vars /\ FairSender

NextReceiver == ReceiverNext

SpecReceiver == Init /\ [][NextReceiver]_vars

NextUpgrade == UpgradeNext

SpecUpgrade == Init /\ [][NextUpgrade]_vars

InitRate == ServerInit /\ ClientInit /\ SenderInit /\ ReceiverInit
            /\ UpgradeInit /\ RateInit /\ ReaderInit

NextRate == RateNext

SpecRate == InitRate /\ [][NextRate]_vars

InitGate == ServerInit /\ ClientInit /\ GateInit /\ ReceiverInit
            /\ UpgradeInit /\ RateIdle /\ ReaderInit

NextGate ==
    \/ senderCheck
    \/ \E ok \in BOOLEAN : senderSend(ok)
    \/ senderDone
    \/ senderCancel

SpecGate == InitGate /\ [][NextGate]_vars

NextReader == ReaderNext

SpecReader == Init /\ [][NextReader]_vars

NextChunk == ChunkNext

SpecChunk == Init /\ [][NextChunk]_vars

====
